---- MODULE Spec2Model ----
(***************************************************************************)
(* Model of the word-list editor with a clickable grid (src/src/App.js).   *)
(* The state is the React state of the App component; every action is one  *)
(* event handler, run to completion, followed by the effects its state     *)
(* changes trigger.  A handler is enabled when the control it is wired to  *)
(* is rendered.  The variable last is history: the last event handled.     *)
(***************************************************************************)
EXTENDS Integers, Sequences, FiniteSets, TLC

VARIABLES currentWord, enteredWords, editMode, editedWordText,
          selectedWordData, gridCells, placedWordIds, nextColorIndex, last

vars == <<currentWord, enteredWords, editMode, editedWordText,
          selectedWordData, gridCells, placedWordIds, nextColorIndex, last>>

(***************************************************************************)
(* Program constants.                                                      *)
(***************************************************************************)
ROWS == 8
COLS == 6

WORD_COLORS ==
    << "#EF4444", "#3B82F6", "#10B981", "#F59E0B", "#8B5CF6", "#EC4899",
       "#06B6D4", "#6B7280", "#A855F7", "#EAB308", "#F43F5E", "#22C55E" >>

(***************************************************************************)
(* Bounds of the exploration.  Clicks fall in the top-left corner of the   *)
(* grid, rows 0..MaxClickRow and columns 0..MaxClickCol; the registry      *)
(* holds at most MaxWords words.  The exploration of the export clicks in  *)
(* rows 0..MaxExportRow and columns 0..MaxExportCol, the exploration of    *)
(* the palette adds up to MaxPaletteWords words.                           *)
(***************************************************************************)
MaxWords        == 2
MaxClickRow     == 0
MaxClickCol     == 2
MaxExportRow    == 1
MaxExportCol    == 1
MaxPaletteWords == 13

(***************************************************************************)
(* Texts.  A text is a sequence of one-character strings.  InputTexts are  *)
(* the values the author types into the two input fields.                  *)
(***************************************************************************)
InputTexts ==
    { << " " >>, << "o", "x" >>, << " ", "n", "e", "s", "t", " " >> }

IsSpace(ch) == ch = " "

\* String.prototype.trim: drop the white space at both ends.
RECURSIVE TrimLeft(_)
TrimLeft(t) ==
    IF t # << >> /\ IsSpace(Head(t)) THEN TrimLeft(Tail(t)) ELSE t

RECURSIVE TrimRight(_)
TrimRight(t) ==
    IF t # << >> /\ IsSpace(t[Len(t)])
    THEN TrimRight(SubSeq(t, 1, Len(t) - 1))
    ELSE t

Trim_Identity(t) == t

Trim(t) == TrimRight(TrimLeft(t))

\* String.prototype.toUpperCase on one character.
ToUpperCase(ch) ==
    CASE ch = "o" -> "O"
      [] ch = "x" -> "X"
      [] ch = "n" -> "N"
      [] ch = "e" -> "E"
      [] ch = "s" -> "S"
      [] ch = "t" -> "T"
      [] OTHER    -> ch

\* String.prototype.charAt with a 0-based index; "" out of range.
CharAt(t, i) == IF i >= 0 /\ i < Len(t) THEN t[i + 1] ELSE ""

(***************************************************************************)
(* Null values of the JavaScript state.                                    *)
(***************************************************************************)
NullId     == 0
NullText   == << >>
NullColor  == ""
NullCoords == << >>
NullCell   == [null |-> TRUE]

\* { id: null, text: null, color: null, letterIndex: 0, lastPlacedCoords: null }
NoSelection ==
    [id |-> NullId, text |-> NullText, color |-> NullColor,
     letterIndex |-> 0, lastPlacedCoords |-> NullCoords]

\* The cells of the grid, and the cells a click can reach.
Coords     == (0 .. ROWS - 1) \X (0 .. COLS - 1)
ClickCells == { rc \in Coords : rc[1] <= MaxClickRow /\ rc[2] <= MaxClickCol }
ExportCells ==
    { rc \in Coords : rc[1] <= MaxExportRow /\ rc[2] <= MaxExportCol }

\* gridCells is kept for the top-left rectangle that holds the cells a click
\* can reach.  No handler writes a cell that was not clicked or is not already
\* occupied, so every other cell of the grid is null throughout and every
\* scan skips it.
ScanHeight ==
    (IF MaxClickRow >= MaxExportRow THEN MaxClickRow ELSE MaxExportRow) + 1
ScanWidth ==
    (IF MaxClickCol >= MaxExportCol THEN MaxClickCol ELSE MaxExportCol) + 1
ScanSize  == ScanHeight * ScanWidth

\* The cells of the rectangle in the order of the nested for loops: rows,
\* then columns.
ScanOrder ==
    [i \in 1 .. ScanSize |-> << (i - 1) \div ScanWidth, (i - 1) % ScanWidth >>]

ScanCells == { ScanOrder[i] : i \in 1 .. ScanSize }

\* Array(8).fill(null).map(() => Array(6).fill(null))
EmptyGrid == [rc \in ScanCells |-> NullCell]

Abs(n) == IF n < 0 THEN -n ELSE n

\* isNeighbor without Math.abs: a negative difference passes the <= 1 tests.
isNeighbor_NoAbs(coords1, coords2) ==
    IF coords1 = NullCoords \/ coords2 = NullCoords THEN FALSE
    ELSE LET dr == coords1[1] - coords2[1]
             dc == coords1[2] - coords2[2]
         IN  dr <= 1 /\ dc <= 1 /\ (dr # 0 \/ dc # 0)

\* isNeighbor with a column reach of 2.
isNeighbor_Wide(coords1, coords2) ==
    IF coords1 = NullCoords \/ coords2 = NullCoords THEN FALSE
    ELSE LET dr == Abs(coords1[1] - coords2[1])
             dc == Abs(coords1[2] - coords2[2])
         IN  dr <= 1 /\ dc <= 2 /\ (dr # 0 \/ dc # 0)

\* isNeighbor(coords1, coords2)
isNeighbor(coords1, coords2) ==
    IF coords1 = NullCoords \/ coords2 = NullCoords THEN FALSE
    ELSE LET dr == Abs(coords1[1] - coords2[1])
             dc == Abs(coords1[2] - coords2[2])
         IN  dr <= 1 /\ dc <= 1 /\ (dr # 0 \/ dc # 0)

\* crypto.randomUUID(): an id no word of the registry has.  The program only
\* compares ids for equality, so the fresh id is the least unused one.
IdsOf(words) == { words[i].id : i \in 1 .. Len(words) }

randomUUID(words) == CHOOSE i \in 1 .. Len(words) + 1 : i \notin IdsOf(words)

(***************************************************************************)
(* The scan of handleSelectWord and of the toggle-off branch: the highest  *)
(* sequenceIndex of the word on the grid and the cell that holds it.       *)
(***************************************************************************)
RECURSIVE ScanFrom(_, _, _, _, _)
ScanFrom(grid, wordId, i, maxSequenceIndex, coords) ==
    IF i > ScanSize
    THEN [maxSequenceIndex |-> maxSequenceIndex, coords |-> coords]
    ELSE LET cell == grid[ScanOrder[i]]
         IN  IF cell # NullCell /\ cell.wordId = wordId
                /\ cell.sequenceIndex > maxSequenceIndex
             THEN ScanFrom(grid, wordId, i + 1, cell.sequenceIndex, ScanOrder[i])
             ELSE ScanFrom(grid, wordId, i + 1, maxSequenceIndex, coords)

ScanWord(grid, wordId) == ScanFrom(grid, wordId, 1, -1, NullCoords)

\* The effect on gridCells: the ids of the words with a cell on the grid.
RECURSIVE PlacedFrom(_, _, _)
PlacedFrom(grid, i, currentPlacedIds) ==
    IF i > ScanSize THEN currentPlacedIds
    ELSE LET cell == grid[ScanOrder[i]]
         IN  IF cell # NullCell /\ cell.wordId # NullId
             THEN PlacedFrom(grid, i + 1, currentPlacedIds \cup {cell.wordId})
             ELSE PlacedFrom(grid, i + 1, currentPlacedIds)

\* The effect with an empty dependency list: it never runs again.
ComputePlacedWordIds_Stale(grid) == placedWordIds

ComputePlacedWordIds(grid) == PlacedFrom(grid, 1, {})

(***************************************************************************)
(* Initial state: the state after the first render and its effects.        *)
(***************************************************************************)
Init ==
    /\ currentWord = << >>
    /\ enteredWords = << >>
    /\ editMode = NullId
    /\ editedWordText = << >>
    /\ selectedWordData = NoSelection
    /\ gridCells = EmptyGrid
    /\ placedWordIds = {}
    /\ nextColorIndex = 0
    /\ last = [op |-> "init", arg |-> NullId, res |-> "init", again |-> FALSE,
               signal |-> FALSE]

\* History: the last event handled, the word it was about (select, edit,
\* save, clear), the branch the handler took, whether it is a select that
\* directly follows a select of the same word, and whether the handler played
\* the completion sound.
Event(op, arg, res) ==
    [op |-> op, arg |-> arg, res |-> res,
     again |-> op = "select" /\ last.op = "select" /\ last.arg = arg,
     signal |-> FALSE]

\* handleInputChange: the author types in the add-word field.
handleInputChange(value) ==
    /\ currentWord' = value
    /\ last' = Event("input", NullId, "typed")
    /\ UNCHANGED <<enteredWords, editMode, editedWordText, selectedWordData,
                   gridCells, placedWordIds, nextColorIndex>>

\* NewWordColor clamped to the last palette entry instead of wrapping.
NewWordColor_NoWrap(colorIndex) ==
    WORD_COLORS[(IF colorIndex < Len(WORD_COLORS)
                 THEN colorIndex ELSE Len(WORD_COLORS) - 1) + 1]

\* WORD_COLORS[nextColorIndex.current % WORD_COLORS.length]
NewWordColor(colorIndex) == WORD_COLORS[(colorIndex % Len(WORD_COLORS)) + 1]

\* handleAddWord: the Add Word button or Enter in the add-word field.
handleAddWord ==
    /\ IF Trim(currentWord) # << >>
       THEN LET newWordColor == NewWordColor(nextColorIndex)
                newWord == [id    |-> randomUUID(enteredWords),
                            text  |-> Trim(currentWord),
                            color |-> newWordColor]
            IN  /\ nextColorIndex' = nextColorIndex + 1
                /\ enteredWords' = Append(enteredWords, newWord)
                /\ currentWord' = << >>
                /\ last' = Event("add", NullId, "added")
       ELSE /\ UNCHANGED <<nextColorIndex, enteredWords, currentWord>>
            /\ last' = Event("add", NullId, "rejected")
    /\ UNCHANGED <<editMode, editedWordText, selectedWordData, gridCells,
                   placedWordIds>>

\* handleEditClick that deselects only a Selection on another word.
handleEditClick_DeselectsOther(wordId, currentText) ==
    /\ editMode # wordId
    /\ editMode' = wordId
    /\ editedWordText' = currentText
    /\ selectedWordData' =
          IF selectedWordData.id = wordId THEN selectedWordData ELSE NoSelection
    /\ last' = Event("edit", wordId, "editing")
    /\ UNCHANGED <<currentWord, enteredWords, gridCells, placedWordIds,
                   nextColorIndex>>

\* handleEditClick without the setSelectedWordData call.
handleEditClick_KeepSelection(wordId, currentText) ==
    /\ editMode # wordId
    /\ editMode' = wordId
    /\ editedWordText' = currentText
    /\ last' = Event("edit", wordId, "editing")
    /\ UNCHANGED <<currentWord, enteredWords, selectedWordData, gridCells,
                   placedWordIds, nextColorIndex>>

\* handleEditClick(wordId, currentText): the Edit button of a word that is not
\* being edited.
handleEditClick(wordId, currentText) ==
    /\ editMode # wordId
    /\ editMode' = wordId
    /\ editedWordText' = currentText
    /\ selectedWordData' = NoSelection
    /\ last' = Event("edit", wordId,
                     IF selectedWordData.id # NullId
                     THEN "deselected" ELSE "editing")
    /\ UNCHANGED <<currentWord, enteredWords, gridCells, placedWordIds,
                   nextColorIndex>>

\* handleEditInputChange: the author types in the edit field, which is only
\* rendered for the word in edit mode.
handleEditInputChange(value) ==
    /\ editMode # NullId
    /\ editedWordText' = value
    /\ last' = Event("editinput", NullId, "typed")
    /\ UNCHANGED <<currentWord, enteredWords, editMode, selectedWordData,
                   gridCells, placedWordIds, nextColorIndex>>

\* ClearedGrid that leaves the first letter of the word on the grid.
ClearedGrid_KeepFirst(prevGridCells, wordIdToClear) ==
    [rc \in DOMAIN prevGridCells |->
        IF prevGridCells[rc] # NullCell
           /\ prevGridCells[rc].wordId = wordIdToClear
           /\ prevGridCells[rc].sequenceIndex > 0
        THEN NullCell
        ELSE prevGridCells[rc]]

\* ClearedGrid that leaves the grid as it is.
ClearedGrid_None(prevGridCells, wordIdToClear) == prevGridCells

\* ClearedGrid that empties the whole grid.
ClearedGrid_All(prevGridCells, wordIdToClear) ==
    [rc \in DOMAIN prevGridCells |-> NullCell]

\* clearCellsForWord, the grid part: every cell of the word becomes null.
ClearedGrid(prevGridCells, wordIdToClear) ==
    [rc \in DOMAIN prevGridCells |->
        IF prevGridCells[rc] # NullCell
           /\ prevGridCells[rc].wordId = wordIdToClear
        THEN NullCell
        ELSE prevGridCells[rc]]

\* ClearedSelection that leaves the placement progress of the word as it is.
ClearedSelection_Keep(prevSelected, wordIdToClear) == prevSelected

\* ClearedSelection that resets letterIndex and keeps lastPlacedCoords.
ClearedSelection_KeepCoords(prevSelected, wordIdToClear) ==
    IF prevSelected.id = wordIdToClear
    THEN [prevSelected EXCEPT !.letterIndex = 0]
    ELSE prevSelected

\* clearCellsForWord, the selection part: a selected word restarts.
ClearedSelection(prevSelected, wordIdToClear) ==
    IF prevSelected.id = wordIdToClear
    THEN [prevSelected EXCEPT !.letterIndex = 0,
                              !.lastPlacedCoords = NullCoords]
    ELSE prevSelected

\* clearCellsForWord(wordIdToClear), with the effect that follows setGridCells.
clearCellsForWord(wordIdToClear) ==
    /\ gridCells' = ClearedGrid(gridCells, wordIdToClear)
    /\ selectedWordData' = ClearedSelection(selectedWordData, wordIdToClear)
    /\ placedWordIds' = ComputePlacedWordIds(gridCells')

\* enteredWords.find(word => word.id === wordId); the registry holds the id.
FindWord(words, wordId) ==
    words[CHOOSE i \in 1 .. Len(words) : words[i].id = wordId]

HasWord(words, wordId) == \E i \in 1 .. Len(words) : words[i].id = wordId

\* handleSaveEdit(wordId): the Save button or Enter in the edit field of the
\* word in edit mode.
handleSaveEdit(wordId) ==
    /\ editMode = wordId
    /\ wordId # NullId
    /\ IF Trim(editedWordText) # << >>
       THEN /\ IF HasWord(enteredWords, wordId)
                  /\ FindWord(enteredWords, wordId).text # Trim(editedWordText)
               THEN /\ clearCellsForWord(wordId)
                    /\ last' = Event("save", wordId,
                                     IF gridCells' # gridCells
                                     THEN "renamedcleared" ELSE "renamed")
               ELSE /\ UNCHANGED <<gridCells, selectedWordData, placedWordIds>>
                    /\ last' = Event("save", wordId, "same")
            /\ enteredWords' =
                  [i \in 1 .. Len(enteredWords) |->
                      IF enteredWords[i].id = wordId
                      THEN [enteredWords[i] EXCEPT !.text = Trim(editedWordText)]
                      ELSE enteredWords[i]]
       ELSE /\ UNCHANGED <<gridCells, selectedWordData, placedWordIds,
                           enteredWords>>
            /\ last' = Event("save", wordId, "empty")
    /\ editMode' = NullId
    /\ editedWordText' = << >>
    /\ UNCHANGED <<currentWord, nextColorIndex>>

\* handleCancelEdit: the Cancel button of the word in edit mode.
handleCancelEdit ==
    /\ editMode # NullId
    /\ editMode' = NullId
    /\ editedWordText' = << >>
    /\ last' = Event("cancel", NullId, "cancelled")
    /\ UNCHANGED <<currentWord, enteredWords, selectedWordData, gridCells,
                   placedWordIds, nextColorIndex>>

\* handleClearWordCellsButton(wordId): the Clear button of a word that is not
\* being edited.
handleClearWordCellsButton(wordId) ==
    /\ editMode # wordId
    /\ clearCellsForWord(wordId)
    /\ last' = Event("clear", wordId,
                     IF gridCells' # gridCells THEN "cleared" ELSE "nocells")
    /\ UNCHANGED <<currentWord, enteredWords, editMode, editedWordText,
                   nextColorIndex>>

\* ResumedSelection that resumes at the highest index found, not after it.
ResumedSelection_OffByOne(grid, wordId, wordText, wordColor) ==
    LET scan == ScanWord(grid, wordId)
        newLetterIndex == IF scan.maxSequenceIndex = -1
                          THEN 0
                          ELSE scan.maxSequenceIndex
    IN  [id               |-> wordId,
         text             |-> Trim(wordText),
         color            |-> wordColor,
         letterIndex      |-> newLetterIndex,
         lastPlacedCoords |-> scan.coords]

\* ResumedSelection that resumes at the lowest sequenceIndex that is missing.
ResumedSelection_FirstGap(grid, wordId, wordText, wordColor) ==
    LET scan == ScanWord(grid, wordId)
        present == { grid[rc].sequenceIndex :
                        rc \in { o \in DOMAIN grid :
                                    /\ grid[o] # NullCell
                                    /\ grid[o].wordId = wordId } }
        newLetterIndex == CHOOSE k \in 0 .. scan.maxSequenceIndex + 1 :
                              /\ k \notin present
                              /\ \A j \in 0 .. k - 1 : j \in present
    IN  [id               |-> wordId,
         text             |-> Trim(wordText),
         color            |-> wordColor,
         letterIndex      |-> newLetterIndex,
         lastPlacedCoords |-> scan.coords]

\* The selection handleSelectWord builds for a word that was not selected.
ResumedSelection(grid, wordId, wordText, wordColor) ==
    LET scan == ScanWord(grid, wordId)
        newLetterIndex == IF scan.maxSequenceIndex = -1
                          THEN 0
                          ELSE scan.maxSequenceIndex + 1
    IN  [id               |-> wordId,
         text             |-> Trim(wordText),
         color            |-> wordColor,
         letterIndex      |-> newLetterIndex,
         lastPlacedCoords |-> scan.coords]

\* IsCurrentSelection that never recognises the selected word.
IsCurrentSelection_Never(sel, wordId) == FALSE

\* if (selectedWordData.id === wordId)
IsCurrentSelection(sel, wordId) == sel.id = wordId

\* handleSelectWord that clears the letters of the word when it deselects it.
handleSelectWord_ClearsCells(wordId, wordText, wordColor) ==
    /\ editMode # wordId
    /\ IF IsCurrentSelection(selectedWordData, wordId)
       THEN /\ selectedWordData' = NoSelection
            /\ gridCells' = ClearedGrid(gridCells, wordId)
            /\ placedWordIds' = ComputePlacedWordIds(gridCells')
            /\ last' = Event("select", wordId, "deselected")
       ELSE /\ selectedWordData' =
                  ResumedSelection(gridCells, wordId, wordText, wordColor)
            /\ UNCHANGED <<gridCells, placedWordIds>>
            /\ last' = Event("select", wordId, "selected")
    /\ editMode' = NullId
    /\ UNCHANGED <<currentWord, enteredWords, editedWordText, nextColorIndex>>

\* handleSelectWord(wordId, wordText, wordColor): the Select button of a word
\* that is not being edited.
handleSelectWord(wordId, wordText, wordColor) ==
    /\ editMode # wordId
    /\ IF IsCurrentSelection(selectedWordData, wordId)
       THEN /\ selectedWordData' = NoSelection
            /\ last' = Event("select", wordId, "deselected")
       ELSE /\ selectedWordData' =
                  ResumedSelection(gridCells, wordId, wordText, wordColor)
            /\ last' = Event("select", wordId, "selected")
    /\ editMode' = NullId
    /\ UNCHANGED <<currentWord, enteredWords, editedWordText, gridCells,
                   placedWordIds, nextColorIndex>>

\* if (selectedWordId && selectedWordText && selectedColor)
SelectionActive(sel) ==
    sel.id # NullId /\ sel.text # NullText /\ sel.color # NullColor

\* NoLettersLeft that never holds: no letters-left check.
NoLettersLeft_Never(sel) == FALSE

\* NoLettersLeft with > for >=.
NoLettersLeft_Strict(sel) == sel.letterIndex > Len(sel.text)

\* if (currentLetterIndex >= selectedWordText.length)
NoLettersLeft(sel) == sel.letterIndex >= Len(sel.text)

\* LetterToPlace without toUpperCase.
LetterToPlace_NoUpper(sel) == CharAt(sel.text, sel.letterIndex)

\* selectedWordText.charAt(currentLetterIndex).toUpperCase()
LetterToPlace(sel) == ToUpperCase(CharAt(sel.text, sel.letterIndex))

\* OwnedBySelected that takes every occupied cell for the selected word's.
OwnedBySelected_Any(cell, sel) == TRUE

\* if (currentCellContent.wordId === selectedWordId)
OwnedBySelected(cell, sel) == cell.wordId = sel.id

\* The grid with one cell replaced: newGridCells[rowIndex][colIndex] = value.
WithCell(grid, rc, value) == [grid EXCEPT ![rc] = value]

\* ToggledSelection with Math.max(0, highestSequenceIndex): no + 1.
ToggledSelection_OffByOne(prevData, newGridCells) ==
    LET scan == ScanWord(newGridCells, prevData.id)
        next == scan.maxSequenceIndex
    IN  [prevData EXCEPT !.letterIndex = IF next > 0 THEN next ELSE 0,
                         !.lastPlacedCoords = scan.coords]

\* ToggledSelection that recomputes letterIndex and keeps lastPlacedCoords.
ToggledSelection_StaleCoords(prevData, newGridCells) ==
    LET scan == ScanWord(newGridCells, prevData.id)
        next == scan.maxSequenceIndex + 1
    IN  [prevData EXCEPT !.letterIndex = IF next > 0 THEN next ELSE 0]

\* ToggledSelection that restarts the word instead of rescanning the grid.
ToggledSelection_Restart(prevData, newGridCells) ==
    [prevData EXCEPT !.letterIndex = 0, !.lastPlacedCoords = NullCoords]

\* ToggledSelection that counts the remaining cells of the word instead of
\* taking the highest sequenceIndex.
ToggledSelection_Recount(prevData, newGridCells) ==
    LET scan == ScanWord(newGridCells, prevData.id)
    IN  [prevData EXCEPT
            !.letterIndex =
                Cardinality({ rc \in DOMAIN newGridCells :
                                 /\ newGridCells[rc] # NullCell
                                 /\ newGridCells[rc].wordId = prevData.id }),
            !.lastPlacedCoords = scan.coords]

\* The selection after a toggle-off, recomputed from the grid without the cell.
ToggledSelection(prevData, newGridCells) ==
    LET scan == ScanWord(newGridCells, prevData.id)
        next == scan.maxSequenceIndex + 1
    IN  [prevData EXCEPT !.letterIndex = IF next > 0 THEN next ELSE 0,
                         !.lastPlacedCoords = scan.coords]

\* isValidPlacement that accepts every empty cell.
isValidPlacement_Always(sel, rc) == TRUE

\* isValidPlacement without the first-letter case.
isValidPlacement_NeighborOnly(sel, rc) == isNeighbor(sel.lastPlacedCoords, rc)

\* isFirstLetter || isNeighbor(lastPlacedCoords, [rowIndex, colIndex])
isValidPlacement(sel, rc) ==
    sel.letterIndex = 0 \/ isNeighbor(sel.lastPlacedCoords, rc)

\* PlacedCell that records no owner.
PlacedCell_NoOwner(sel, rc) ==
    [letter        |-> LetterToPlace(sel),
     wordId        |-> NullId,
     color         |-> sel.color,
     sequenceIndex |-> sel.letterIndex,
     row           |-> rc[1],
     col           |-> rc[2]]

\* PlacedCell with row and col exchanged.
PlacedCell_Swapped(sel, rc) ==
    [letter        |-> LetterToPlace(sel),
     wordId        |-> sel.id,
     color         |-> sel.color,
     sequenceIndex |-> sel.letterIndex,
     row           |-> rc[2],
     col           |-> rc[1]]

\* The object written into the clicked cell.
PlacedCell(sel, rc) ==
    [letter        |-> LetterToPlace(sel),
     wordId        |-> sel.id,
     color         |-> sel.color,
     sequenceIndex |-> sel.letterIndex,
     row           |-> rc[1],
     col           |-> rc[2]]

\* AllLettersPlaced with > for >=.
AllLettersPlaced_Strict(nextLetterIndex, selectedWordText) ==
    nextLetterIndex > Len(selectedWordText)

\* if (nextLetterIndex >= selectedWordText.length)
AllLettersPlaced(nextLetterIndex, selectedWordText) ==
    nextLetterIndex >= Len(selectedWordText)

\* AdvancedSelection that advances letterIndex and keeps lastPlacedCoords.
AdvancedSelection_KeepCoords(prevData, rc) ==
    LET nextLetterIndex == prevData.letterIndex + 1
    IN  IF AllLettersPlaced(nextLetterIndex, prevData.text)
        THEN NoSelection
        ELSE [prevData EXCEPT !.letterIndex = nextLetterIndex]

\* The selection after an accepted placement.
AdvancedSelection(prevData, rc) ==
    LET nextLetterIndex == prevData.letterIndex + 1
    IN  IF AllLettersPlaced(nextLetterIndex, prevData.text)
        THEN NoSelection
        ELSE [prevData EXCEPT !.letterIndex = nextLetterIndex,
                              !.lastPlacedCoords = rc]

\* SignalEmitted without the test that the word is complete.
SignalEmitted_OnEveryPlacement(audioRunning, allPlaced) == audioRunning

\* triggerAttackRelease runs when the last letter was placed and
\* synthRef.current && typeof Tone !== 'undefined'
\*     && Tone.context.state === 'running'
SignalEmitted(audioRunning, allPlaced) == allPlaced /\ audioRunning

\* handleCellClick with the selection test only on the letters-left check:
\* if (selectedWordId && currentLetterIndex >= selectedWordText.length).
handleCellClick_Unguarded(rowIndex, colIndex) ==
    LET rc == << rowIndex, colIndex >>
        currentCellContent == gridCells[rc]
        sel == selectedWordData
    IN
    /\ IF SelectionActive(sel) /\ NoLettersLeft(sel)
       THEN /\ selectedWordData' = NoSelection
            /\ UNCHANGED <<gridCells, placedWordIds>>
            /\ last' = Event("click", NullId, "exhausted")
       ELSE IF currentCellContent # NullCell
       THEN IF OwnedBySelected(currentCellContent, sel)
            THEN /\ gridCells' = WithCell(gridCells, rc, NullCell)
                 /\ selectedWordData' = ToggledSelection(sel, gridCells')
                 /\ placedWordIds' = ComputePlacedWordIds(gridCells')
                 /\ last' = Event("click", NullId, "toggledoff")
            ELSE /\ UNCHANGED <<gridCells, selectedWordData, placedWordIds>>
                 /\ last' = Event("click", NullId, "otherword")
       ELSE IF isValidPlacement(sel, rc)
       THEN \E audioRunning \in BOOLEAN :
            LET allPlaced == AllLettersPlaced(sel.letterIndex + 1, sel.text)
            IN  /\ gridCells' = WithCell(gridCells, rc, PlacedCell(sel, rc))
                /\ selectedWordData' = AdvancedSelection(sel, rc)
                /\ placedWordIds' = ComputePlacedWordIds(gridCells')
                /\ last' =
                      [Event("click", NullId,
                             IF allPlaced THEN "completed" ELSE "placed")
                       EXCEPT !.signal = SignalEmitted(audioRunning, allPlaced)]
       ELSE /\ UNCHANGED <<gridCells, selectedWordData, placedWordIds>>
            /\ last' = Event("click", NullId, "rejected")
    /\ UNCHANGED <<currentWord, enteredWords, editMode, editedWordText,
                   nextColorIndex>>

\* handleCellClick(rowIndex, colIndex)
handleCellClick(rowIndex, colIndex) ==
    LET rc == << rowIndex, colIndex >>
        currentCellContent == gridCells[rc]
        sel == selectedWordData
    IN
    /\ IF ~SelectionActive(sel)
       THEN /\ UNCHANGED <<gridCells, selectedWordData, placedWordIds>>
            /\ last' = Event("click", NullId, "noselection")
       ELSE IF NoLettersLeft(sel)
       THEN /\ selectedWordData' = NoSelection
            /\ UNCHANGED <<gridCells, placedWordIds>>
            /\ last' = Event("click", NullId, "exhausted")
       ELSE IF currentCellContent # NullCell
       THEN IF OwnedBySelected(currentCellContent, sel)
            THEN /\ gridCells' = WithCell(gridCells, rc, NullCell)
                 /\ selectedWordData' = ToggledSelection(sel, gridCells')
                 /\ placedWordIds' = ComputePlacedWordIds(gridCells')
                 /\ last' = Event("click", NullId, "toggledoff")
            ELSE /\ UNCHANGED <<gridCells, selectedWordData, placedWordIds>>
                 /\ last' = Event("click", NullId, "otherword")
       ELSE IF isValidPlacement(sel, rc)
       THEN \E audioRunning \in BOOLEAN :
            LET allPlaced == AllLettersPlaced(sel.letterIndex + 1, sel.text)
            IN  /\ gridCells' = WithCell(gridCells, rc, PlacedCell(sel, rc))
                /\ selectedWordData' = AdvancedSelection(sel, rc)
                /\ placedWordIds' = ComputePlacedWordIds(gridCells')
                /\ last' =
                      [Event("click", NullId,
                             IF allPlaced THEN "completed" ELSE "placed")
                       EXCEPT !.signal = SignalEmitted(audioRunning, allPlaced)]
       ELSE /\ UNCHANGED <<gridCells, selectedWordData, placedWordIds>>
            /\ last' = Event("click", NullId, "rejected")
    /\ UNCHANGED <<currentWord, enteredWords, editMode, editedWordText,
                   nextColorIndex>>

(***************************************************************************)
(* handleExport: the Export button.  The fourth line of the file is the    *)
(* result of the event; theme, hint and word lines come from one-line text *)
(* inputs and are not modelled.                                            *)
(***************************************************************************)
DigitChars == << "0", "1", "2", "3", "4", "5", "6", "7", "8", "9" >>

\* The decimal digits of a natural number.
RECURSIVE Digits(_)
Digits(n) ==
    IF n < 10 THEN << DigitChars[n + 1] >>
    ELSE Digits(n \div 10) \o << DigitChars[(n % 10) + 1] >>

\* A number inside a template literal.
NumberToString(n) == IF n < 0 THEN << "-" >> \o Digits(-n) ELSE Digits(n)

\* gridCells.flat()
Flat(grid) == [i \in 1 .. ScanSize |-> grid[ScanOrder[i]]]

\* cellContent !== null
IsMarked(cellContent) == cellContent # NullCell

\* wordIndex counted from 1.
wordIndex_OneBased(words, cellContent) ==
    IF HasWord(words, cellContent.wordId)
    THEN CHOOSE i \in 1 .. Len(words) :
            /\ words[i].id = cellContent.wordId
            /\ \A j \in 1 .. i - 1 : words[j].id # cellContent.wordId
    ELSE -1

\* wordObj ? enteredWords.indexOf(wordObj) : -1
wordIndex(words, cellContent) ==
    IF HasWord(words, cellContent.wordId)
    THEN (CHOOSE i \in 1 .. Len(words) :
            /\ words[i].id = cellContent.wordId
            /\ \A j \in 1 .. i - 1 : words[j].id # cellContent.wordId) - 1
    ELSE -1

\* `${wordIndex};${sequenceIndex};${row};${col}`
CellText(words, cellContent) ==
    NumberToString(wordIndex(words, cellContent)) \o << ";" >>
    \o NumberToString(cellContent.sequenceIndex) \o << ";" >>
    \o NumberToString(cellContent.row) \o << ";" >>
    \o NumberToString(cellContent.col)

\* Array.prototype.join
RECURSIVE Join(_, _)
Join(texts, separator) ==
    IF texts = << >> THEN << >>
    ELSE IF Len(texts) = 1 THEN texts[1]
    ELSE texts[1] \o << separator >> \o Join(Tail(texts), separator)

gridDataLine(words, grid) ==
    LET marked == SelectSeq(Flat(grid), IsMarked)
    IN  Join([k \in 1 .. Len(marked) |-> CellText(words, marked[k])], ",")

handleExport ==
    /\ last' = Event("export", NullId, gridDataLine(enteredWords, gridCells))
    /\ UNCHANGED <<currentWord, enteredWords, editMode, editedWordText,
                   selectedWordData, gridCells, placedWordIds, nextColorIndex>>

\* The registry is explored up to MaxWords words.
Next ==
    \/ \E value \in InputTexts :
          Len(enteredWords) < MaxWords /\ handleInputChange(value)
    \/ Len(enteredWords) < MaxWords /\ handleAddWord
    \/ \E i \in 1 .. Len(enteredWords) :
          handleEditClick(enteredWords[i].id, enteredWords[i].text)
    \/ \E value \in InputTexts : handleEditInputChange(value)
    \/ \E i \in 1 .. Len(enteredWords) : handleSaveEdit(enteredWords[i].id)
    \/ handleCancelEdit
    \/ \E i \in 1 .. Len(enteredWords) :
          handleClearWordCellsButton(enteredWords[i].id)
    \/ \E i \in 1 .. Len(enteredWords) :
          handleSelectWord(enteredWords[i].id, enteredWords[i].text,
                           enteredWords[i].color)
    \/ \E rc \in ClickCells : handleCellClick(rc[1], rc[2])
    \/ handleExport

Spec == Init /\ [][Next]_vars

\* The program with the clicks in the export region: two rows.
NextExport ==
    \/ \E value \in InputTexts :
          Len(enteredWords) < MaxWords /\ handleInputChange(value)
    \/ Len(enteredWords) < MaxWords /\ handleAddWord
    \/ \E i \in 1 .. Len(enteredWords) :
          handleEditClick(enteredWords[i].id, enteredWords[i].text)
    \/ \E value \in InputTexts : handleEditInputChange(value)
    \/ \E i \in 1 .. Len(enteredWords) : handleSaveEdit(enteredWords[i].id)
    \/ handleCancelEdit
    \/ \E i \in 1 .. Len(enteredWords) :
          handleClearWordCellsButton(enteredWords[i].id)
    \/ \E i \in 1 .. Len(enteredWords) :
          handleSelectWord(enteredWords[i].id, enteredWords[i].text,
                           enteredWords[i].color)
    \/ \E rc \in ExportCells : handleCellClick(rc[1], rc[2])
    \/ handleExport

SpecExport == Init /\ [][NextExport]_vars

\* The program with a registry of up to MaxPaletteWords words: the author
\* types "ox" or a blank, and works on the first word and the first cell only.
PaletteTexts == { << " " >>, << "o", "x" >> }

NextPalette ==
    \/ \E value \in PaletteTexts :
          Len(enteredWords) < MaxPaletteWords /\ handleInputChange(value)
    \/ Len(enteredWords) < MaxPaletteWords /\ handleAddWord
    \/ \E i \in 1 .. Len(enteredWords) :
          i = 1 /\ handleEditClick(enteredWords[i].id, enteredWords[i].text)
    \/ \E value \in PaletteTexts : handleEditInputChange(value)
    \/ \E i \in 1 .. Len(enteredWords) :
          i = 1 /\ handleSaveEdit(enteredWords[i].id)
    \/ handleCancelEdit
    \/ \E i \in 1 .. Len(enteredWords) :
          i = 1 /\ handleClearWordCellsButton(enteredWords[i].id)
    \/ \E i \in 1 .. Len(enteredWords) :
          i = 1 /\ handleSelectWord(enteredWords[i].id, enteredWords[i].text,
                                    enteredWords[i].color)
    \/ handleCellClick(0, 0)
    \/ handleExport

SpecPalette == Init /\ [][NextPalette]_vars


(***************************************************************************)
(* Vocabulary of the properties.                                           *)
(***************************************************************************)
Occupied(grid) == { rc \in DOMAIN grid : grid[rc] # NullCell }

CellsOf(grid, w) == { rc \in Occupied(grid) : grid[rc].wordId = w }

OwnersOn(grid) == { grid[rc].wordId : rc \in Occupied(grid) }

\* 8-neighbours: row and column differ by at most 1, not the same cell.
Adjacent(a, b) ==
    /\ a # NullCoords
    /\ b # NullCoords
    /\ a # b
    /\ a[1] - b[1] \in -1 .. 1
    /\ a[2] - b[2] \in -1 .. 1

SelectionPresent == selectedWordData.id # NullId

\* The step is a click on cell rc.
ClickOn(rc) == handleCellClick(rc[1], rc[2])

\* The step is a click on rc that is accepted as a placement.
PlacementOn(rc) ==
    /\ ClickOn(rc)
    /\ gridCells[rc] = NullCell
    /\ gridCells'[rc] # NullCell

\* The step is a select event on word w.
SelectOf(w) == last'.op = "select" /\ last'.arg = w

\* C1. Uniqueness law: no two occupied cells hold the same (wordId,
\* sequenceIndex) pair, in every reachable state.
C1_Uniqueness ==
    \A a, b \in Occupied(gridCells) :
        ( /\ gridCells[a].wordId = gridCells[b].wordId
          /\ gridCells[a].sequenceIndex = gridCells[b].sequenceIndex ) => a = b

C1_Witness ==
    /\ last.op = "click"
    /\ last.res = "placed"
    /\ \E w \in OwnersOn(gridCells) : Cardinality(CellsOf(gridCells, w)) >= 2
    /\ Cardinality(OwnersOn(gridCells)) >= 2

\* b is the next occupied cell of the word of a, in sequenceIndex order.
NextOccupied(grid, a, b) ==
    /\ grid[a].wordId = grid[b].wordId
    /\ grid[a].sequenceIndex < grid[b].sequenceIndex
    /\ ~ \E c \in CellsOf(grid, grid[a].wordId) :
            /\ grid[a].sequenceIndex < grid[c].sequenceIndex
            /\ grid[c].sequenceIndex < grid[b].sequenceIndex

\* No sequenceIndex is missing between the lowest and the highest one of w.
GapFree(grid, w) ==
    \A a, b \in CellsOf(grid, w) :
        \A k \in grid[a].sequenceIndex .. grid[b].sequenceIndex :
            \E c \in CellsOf(grid, w) : grid[c].sequenceIndex = k

\* C2 as stated. Connected path: for every word, each occupied cell is an
\* 8-neighbour of the next occupied cell of the word in sequenceIndex order,
\* in every reachable state, also after toggle-off removals.
C2_ConnectedPath ==
    \A a, b \in Occupied(gridCells) :
        NextOccupied(gridCells, a, b) => Adjacent(a, b)

\* C2 as amended. For every word whose occupied cells leave no sequenceIndex
\* missing between the lowest and the highest, each occupied cell is an
\* 8-neighbour of the next occupied cell of the word.
C2_ConnectedPathGapFree ==
    \A a, b \in Occupied(gridCells) :
        ( /\ NextOccupied(gridCells, a, b)
          /\ GapFree(gridCells, gridCells[a].wordId) ) => Adjacent(a, b)

C2_Witness ==
    /\ last.op = "click"
    /\ last.res = "toggledoff"
    /\ \E w \in OwnersOn(gridCells) :
          /\ GapFree(gridCells, w)
          /\ Cardinality(CellsOf(gridCells, w)) >= 2

\* C3. Invariant I3: if the cells of a word with sequenceIndex k and k+1 are
\* both occupied, they are 8-neighbours, in every reachable state.
C3_ConsecutiveNeighbors ==
    \A a, b \in Occupied(gridCells) :
        ( /\ gridCells[a].wordId = gridCells[b].wordId
          /\ gridCells[b].sequenceIndex = gridCells[a].sequenceIndex + 1 )
        => Adjacent(a, b)

\* A lower letter was toggled off and letters k and k+1 of the word remain.
C3_Witness ==
    /\ last.op = "click"
    /\ last.res = "toggledoff"
    /\ \E a, b \in Occupied(gridCells) :
          /\ gridCells[a].wordId = gridCells[b].wordId
          /\ gridCells[a].sequenceIndex >= 1
          /\ gridCells[b].sequenceIndex = gridCells[a].sequenceIndex + 1

\* C4. Adjacency law: every click accepted as a placement while nextIndex > 0
\* targets an 8-neighbour of lastPlacedCoord as it was before the click.
C4_AdjacencyLaw ==
    [][ \A rc \in ClickCells :
          (PlacementOn(rc) /\ selectedWordData.letterIndex > 0)
          => Adjacent(selectedWordData.lastPlacedCoords, rc) ]_vars

C4_Witness ==
    /\ last.op = "click"
    /\ last.res = "placed"
    /\ selectedWordData.letterIndex >= 2
    /\ selectedWordData.lastPlacedCoords # NullCoords
    /\ gridCells[selectedWordData.lastPlacedCoords] # NullCell

\* sel resumes word w on grid: after the highest sequenceIndex of w, at the
\* cell that holds it; at 0 with no coordinates when w has no cell.
ResumesAt(grid, w, sel) ==
    /\ sel.id = w
    /\ IF CellsOf(grid, w) = {}
       THEN sel.letterIndex = 0 /\ sel.lastPlacedCoords = NullCoords
       ELSE \E rc \in CellsOf(grid, w) :
               /\ \A other \in CellsOf(grid, w) :
                     grid[other].sequenceIndex <= grid[rc].sequenceIndex
               /\ sel.letterIndex = grid[rc].sequenceIndex + 1
               /\ sel.lastPlacedCoords = rc

\* C5. Resumption correctness: selecting a word that is not the current
\* Selection sets nextIndex to k+1 and lastPlacedCoord to the cell holding k,
\* k the highest sequenceIndex of the word on the grid; 0 and absent when the
\* word owns no cell.
C5_Resumption ==
    [][ \A w \in IdsOf(enteredWords) :
          (SelectOf(w) /\ selectedWordData.id # w)
          => ResumesAt(gridCells, w, selectedWordData') ]_vars

C5_Witness ==
    /\ last.op = "select"
    /\ last.res = "selected"
    /\ selectedWordData.letterIndex >= 2
    /\ selectedWordData.letterIndex < Len(selectedWordData.text)

\* C6. Exhaustion auto-deselect: a click accepted as a placement with
\* nextIndex + 1 equal to the length of the selected text leaves the Selection
\* absent, and the placed cell is on the grid.
C6_ExhaustionAutoDeselect ==
    [][ \A rc \in ClickCells :
          ( /\ PlacementOn(rc)
            /\ selectedWordData.letterIndex + 1 = Len(selectedWordData.text) )
          => /\ selectedWordData' = NoSelection
             /\ gridCells'[rc].wordId = selectedWordData.id
             /\ gridCells'[rc].sequenceIndex = selectedWordData.letterIndex ]_vars

C6_Witness ==
    /\ last.op = "click"
    /\ last.res = "completed"
    /\ selectedWordData = NoSelection
    /\ \E i \in 1 .. Len(enteredWords) :
          \E rc \in CellsOf(gridCells, enteredWords[i].id) :
              gridCells[rc].sequenceIndex = Len(enteredWords[i].text) - 1

\* C7. Derived-set correctness: in every state, the placed-word set is the
\* set of the wordIds of the occupied cells, and recomputing it from the grid
\* yields the same set.
C7_DerivedSet ==
    /\ placedWordIds = OwnersOn(gridCells)
    /\ \A w \in IdsOf(enteredWords) :
          w \in placedWordIds <=> CellsOf(gridCells, w) # {}
    /\ ComputePlacedWordIds(gridCells) = placedWordIds

\* The last letter of one word was toggled off while another word stays on
\* the grid.
C7_Witness ==
    /\ last.op = "click"
    /\ last.res = "toggledoff"
    /\ placedWordIds # {}
    /\ selectedWordData.id \notin placedWordIds

OtherWordClick(rc) ==
    /\ ClickOn(rc)
    /\ SelectionPresent
    /\ gridCells[rc] # NullCell
    /\ gridCells[rc].wordId # selectedWordData.id

\* No click changes a cell of a word that is not the current Selection.
ClicksKeepOtherWords ==
    last'.op = "click" =>
        \A rc \in Occupied(gridCells) :
            gridCells[rc].wordId # selectedWordData.id
            => gridCells'[rc] = gridCells[rc]

\* C9 as stated. A click on a cell occupied by a word other than the selected
\* word leaves the grid, the Selection and the placed-word set unchanged; no
\* click changes a cell of a word that is not the current Selection.
C9_OtherWordNoOp ==
    [][ /\ \A rc \in ClickCells :
              OtherWordClick(rc)
              => UNCHANGED <<gridCells, selectedWordData, placedWordIds>>
        /\ ClicksKeepOtherWords ]_vars

\* C9 as amended. A click on a cell occupied by a word other than the
\* selected word leaves the grid and the placed-word set unchanged; it leaves
\* the Selection unchanged when nextIndex is less than the length of the
\* selected text, and makes the Selection absent otherwise.  No click changes
\* a cell of a word that is not the current Selection.
C9_OtherWordClick ==
    [][ /\ \A rc \in ClickCells :
              OtherWordClick(rc)
              => /\ UNCHANGED <<gridCells, placedWordIds>>
                 /\ selectedWordData' =
                       IF selectedWordData.letterIndex
                             < Len(selectedWordData.text)
                       THEN selectedWordData
                       ELSE NoSelection
        /\ ClicksKeepOtherWords ]_vars

C9_Witness ==
    /\ last.op = "click"
    /\ last.res = "otherword"
    /\ SelectionPresent
    /\ \E rc \in Occupied(gridCells) :
          gridCells[rc].wordId # selectedWordData.id

\* C10. A click on an empty cell while 0 < nextIndex < length of the selected
\* text and the cell is not an 8-neighbour of lastPlacedCoord is rejected:
\* grid, Selection and placed-word set are unchanged.
C10_NonAdjacentRejected ==
    [][ \A rc \in ClickCells :
          ( /\ ClickOn(rc)
            /\ SelectionPresent
            /\ gridCells[rc] = NullCell
            /\ selectedWordData.letterIndex > 0
            /\ selectedWordData.letterIndex < Len(selectedWordData.text)
            /\ ~Adjacent(selectedWordData.lastPlacedCoords, rc) )
          => UNCHANGED <<gridCells, selectedWordData, placedWordIds>> ]_vars

C10_Witness ==
    /\ last.op = "click"
    /\ last.res = "rejected"
    /\ selectedWordData.letterIndex > 0
    /\ \E rc \in ClickCells :
          /\ gridCells[rc] = NullCell
          /\ ~Adjacent(selectedWordData.lastPlacedCoords, rc)

\* C11. A cell-click while no Selection is active is a no-op for every cell,
\* empty or occupied: grid, Selection, word registry and placed-word set are
\* unchanged.
C11_ClickWithoutSelection ==
    [][ \A rc \in ClickCells :
          (ClickOn(rc) /\ ~SelectionPresent)
          => UNCHANGED <<gridCells, selectedWordData, enteredWords,
                         placedWordIds>> ]_vars

\* A click with no Selection, with an occupied and an empty cell to click on.
C11_Witness ==
    /\ last.op = "click"
    /\ last.res = "noselection"
    /\ ~SelectionPresent
    /\ Occupied(gridCells) # {}
    /\ Occupied(gridCells) # ClickCells

\* C12. Exhausted selection: with nextIndex greater than or equal to the
\* length of the selected text, a click on any cell (empty, of the selected
\* word, of another word) clears the Selection and changes no grid cell.
C12_ExhaustedClick ==
    [][ \A rc \in ClickCells :
          ( /\ ClickOn(rc)
            /\ SelectionPresent
            /\ selectedWordData.letterIndex >= Len(selectedWordData.text) )
          => /\ selectedWordData' = NoSelection
             /\ gridCells' = gridCells ]_vars

\* A word with its last letter on the grid was selected again and a click
\* deselected it.
C12_Witness ==
    /\ last.op = "click"
    /\ last.res = "exhausted"
    /\ ~SelectionPresent
    /\ \E i \in 1 .. Len(enteredWords) :
          \E rc \in CellsOf(gridCells, enteredWords[i].id) :
              gridCells[rc].sequenceIndex = Len(enteredWords[i].text) - 1

\* C13. Toggle-off: with a Selection that has letters left, a click on a cell
\* of the selected word empties exactly that cell, keeps the Selection on the
\* word, and resumes after the highest sequenceIndex among the remaining cells
\* of the word (at 0, with no coordinates, when none remains).
C13_ToggleOff ==
    [][ \A rc \in ClickCells :
          ( /\ ClickOn(rc)
            /\ SelectionPresent
            /\ selectedWordData.letterIndex < Len(selectedWordData.text)
            /\ gridCells[rc] # NullCell
            /\ gridCells[rc].wordId = selectedWordData.id )
          => /\ gridCells' = [gridCells EXCEPT ![rc] = NullCell]
             /\ ResumesAt(gridCells', selectedWordData.id, selectedWordData')
             /\ selectedWordData'.text = selectedWordData.text
             /\ selectedWordData'.color = selectedWordData.color ]_vars

\* A cell below the highest one was toggled off: the Selection resumes after
\* the highest remaining cell.
C13_Witness ==
    /\ last.op = "click"
    /\ last.res = "toggledoff"
    /\ SelectionPresent
    /\ selectedWordData.letterIndex >= 2
    /\ Cardinality(CellsOf(gridCells, selectedWordData.id))
          < selectedWordData.letterIndex

\* C14. Clearing the cells of word w empties every grid cell owned by w; if w
\* is the current Selection, the Selection stays on w with nextIndex 0 and no
\* lastPlacedCoord, and the next click on an empty cell places the first
\* letter of w at sequenceIndex 0.
C14_ClearWord ==
    [][ /\ \A w \in IdsOf(enteredWords) :
              (last'.op = "clear" /\ last'.arg = w)
              => /\ CellsOf(gridCells', w) = {}
                 /\ selectedWordData.id = w
                    => selectedWordData' =
                          [selectedWordData EXCEPT
                              !.letterIndex = 0,
                              !.lastPlacedCoords = NullCoords]
        /\ \A rc \in ClickCells :
              ( /\ last.op = "clear"
                /\ last.arg = selectedWordData.id
                /\ ClickOn(rc)
                /\ gridCells[rc] = NullCell )
              => /\ gridCells'[rc] # NullCell
                 /\ gridCells'[rc].wordId = selectedWordData.id
                 /\ gridCells'[rc].sequenceIndex = 0 ]_vars

\* The selected word had cells and was cleared, another word stays on the
\* grid.
C14_Witness ==
    /\ last.op = "clear"
    /\ last.res = "cleared"
    /\ last.arg = selectedWordData.id
    /\ selectedWordData.letterIndex = 0
    /\ selectedWordData.lastPlacedCoords = NullCoords
    /\ CellsOf(gridCells, selectedWordData.id) = {}
    /\ Occupied(gridCells) # {}

\* The upper-case form of a character, as a table.
LowerLetters == << "o", "x", "n", "e", "s", "t" >>
UpperLetters == << "O", "X", "N", "E", "S", "T" >>

UpperOf(ch) ==
    IF \E i \in 1 .. Len(LowerLetters) : LowerLetters[i] = ch
    THEN UpperLetters[CHOOSE i \in 1 .. Len(LowerLetters) : LowerLetters[i] = ch]
    ELSE ch

\* The text has no white space at either end.
IsTrimmed(t) == t = << >> \/ (t[1] # " " /\ t[Len(t)] # " ")

\* C15. Invariant I4 with snapshot semantics: every placement writes the
\* upper-case form of the character at nextIndex of the Selection's text, with
\* sequenceIndex = nextIndex; the Selection's text is the trimmed text of the
\* word, captured when the word was selected.
C15_PlacementLetter ==
    [][ /\ \A rc \in ClickCells :
              PlacementOn(rc)
              => /\ gridCells'[rc].letter =
                       UpperOf(selectedWordData.text[
                                   selectedWordData.letterIndex + 1])
                 /\ gridCells'[rc].sequenceIndex = selectedWordData.letterIndex
        /\ \A i \in 1 .. Len(enteredWords) :
              ( /\ SelectOf(enteredWords[i].id)
                /\ selectedWordData.id # enteredWords[i].id )
              => /\ selectedWordData'.text = enteredWords[i].text
                 /\ IsTrimmed(selectedWordData'.text) ]_vars

\* A letter that is not the first one of its word was placed.
C15_Witness ==
    /\ last.op = "click"
    /\ last.res = "placed"
    /\ SelectionPresent
    /\ selectedWordData.letterIndex >= 2
    /\ \E rc \in CellsOf(gridCells, selectedWordData.id) :
          /\ gridCells[rc].sequenceIndex = selectedWordData.letterIndex - 1
          /\ gridCells[rc].letter =
                UpperOf(selectedWordData.text[selectedWordData.letterIndex])
          /\ gridCells[rc].letter #
                selectedWordData.text[selectedWordData.letterIndex]

\* C16. Invariant I1: every occupied grid slot at (r, c) holds a Placement
\* with row = r and col = c, in every reachable state.
C16_StoredCoordinates ==
    \A rc \in Occupied(gridCells) :
        gridCells[rc].row = rc[1] /\ gridCells[rc].col = rc[2]

\* A cell off the diagonal is occupied after the cells of another word were
\* cleared.
C16_Witness ==
    /\ last.op = "clear"
    /\ last.res = "cleared"
    /\ \E rc \in Occupied(gridCells) : rc[1] # rc[2]

\* C17. Selection and edit mode are mutually exclusive: never a Selection
\* present while a word is in edit mode; every select event leaves edit mode
\* off; entering edit mode makes the Selection absent and leaves the grid
\* unchanged.
C17_SelectionExcludesEdit ==
    [][ /\ ~(selectedWordData'.id # NullId /\ editMode' # NullId)
        /\ last'.op = "select" => editMode' = NullId
        /\ last'.op = "edit"
           => /\ selectedWordData' = NoSelection
              /\ editMode' # NullId
              /\ gridCells' = gridCells ]_vars

\* Edit mode was entered while a word with cells on the grid was selected.
C17_Witness ==
    /\ last.op = "edit"
    /\ last.res = "deselected"
    /\ editMode # NullId
    /\ ~SelectionPresent
    /\ Occupied(gridCells) # {}

\* The fields of a text between the occurrences of a separator.
RECURSIVE FieldsOf(_, _)
FieldsOf(t, sep) ==
    IF \A i \in 1 .. Len(t) : t[i] # sep THEN << t >>
    ELSE LET p == CHOOSE i \in 1 .. Len(t) :
                     t[i] = sep /\ \A j \in 1 .. i - 1 : t[j] # sep
         IN  << SubSeq(t, 1, p - 1) >> \o FieldsOf(SubSeq(t, p + 1, Len(t)), sep)

DecimalValue ==
    ("0" :> 0) @@ ("1" :> 1) @@ ("2" :> 2) @@ ("3" :> 3) @@ ("4" :> 4) @@
    ("5" :> 5) @@ ("6" :> 6) @@ ("7" :> 7) @@ ("8" :> 8) @@ ("9" :> 9)

\* The integer a decimal numeral denotes.
RECURSIVE NumberOf(_)
NumberOf(t) ==
    IF t = << >> THEN 0
    ELSE IF t[1] = "-" THEN -NumberOf(Tail(t))
    ELSE NumberOf(SubSeq(t, 1, Len(t) - 1)) * 10 + DecimalValue[t[Len(t)]]

\* The records of an export line, each the sequence of its numbers.
ExportRecords(line) ==
    IF line = << >> THEN << >>
    ELSE LET recs == FieldsOf(line, ",")
         IN  [k \in 1 .. Len(recs) |->
                 LET f == FieldsOf(recs[k], ";")
                 IN  [n \in 1 .. Len(f) |-> NumberOf(f[n])]]

\* The place of an occupied cell among the occupied cells, rows first.
RowMajorRank(grid, rc) ==
    Cardinality({ o \in Occupied(grid) :
                     o[1] < rc[1] \/ (o[1] = rc[1] /\ o[2] < rc[2]) }) + 1

\* C18. Export placement records: the fourth export line holds exactly one
\* record per occupied grid cell, in row-major scan order; the four fields of
\* a record are the 0-based registry position of the owning word, the cell's
\* sequenceIndex, and the row and column of the slot the cell occupies; export
\* changes no state.
C18_ExportRecords ==
    [][ last'.op = "export"
        => /\ UNCHANGED <<currentWord, enteredWords, editMode, editedWordText,
                          selectedWordData, gridCells, placedWordIds,
                          nextColorIndex>>
           /\ LET recs == ExportRecords(last'.res)
              IN  /\ Len(recs) = Cardinality(Occupied(gridCells))
                  /\ \A rc \in Occupied(gridCells) :
                        LET rec == recs[RowMajorRank(gridCells, rc)]
                        IN  /\ Len(rec) = 4
                            /\ \E i \in 1 .. Len(enteredWords) :
                                  /\ enteredWords[i].id = gridCells[rc].wordId
                                  /\ rec[1] = i - 1
                            /\ rec[2] = gridCells[rc].sequenceIndex
                            /\ rec[3] = rc[1]
                            /\ rec[4] = rc[2] ]_vars

\* An export of a grid with cells of two words in two rows, the first cell of
\* the scan owned by the second word of the registry.
C18_Witness ==
    /\ last.op = "export"
    /\ Len(ExportRecords(last.res)) >= 3
    /\ Cardinality(OwnersOn(gridCells)) = 2
    /\ << 0, 1 >> \in Occupied(gridCells)
    /\ << 1, 0 >> \in Occupied(gridCells)
    /\ << 0, 0 >> \in Occupied(gridCells)
    /\ Len(enteredWords) = 2
    /\ gridCells[<< 0, 0 >>].wordId = enteredWords[2].id

\* The palette, twice over.
PaletteCycle == WORD_COLORS \o WORD_COLORS

\* C19. Palette contract: the Nth successfully added word (N from 0) receives
\* palette[N mod 12]; the assignment counter increases by exactly 1 per
\* successful add and no other event changes it.
C19_Palette ==
    [][ IF Len(enteredWords') > Len(enteredWords)
        THEN /\ Len(enteredWords') = Len(enteredWords) + 1
             /\ enteredWords'[Len(enteredWords')].color =
                   PaletteCycle[Len(enteredWords) + 1]
             /\ nextColorIndex' = nextColorIndex + 1
        ELSE nextColorIndex' = nextColorIndex ]_vars

\* The thirteenth word was added and received the first color again.
C19_Witness ==
    /\ last.op = "add"
    /\ last.res = "added"
    /\ Len(enteredWords) = Len(WORD_COLORS) + 1
    /\ nextColorIndex = Len(WORD_COLORS) + 1
    /\ enteredWords[Len(WORD_COLORS) + 1].color = WORD_COLORS[1]
    /\ enteredWords[Len(WORD_COLORS)].color = WORD_COLORS[Len(WORD_COLORS)]

\* The text is empty or white space only.
IsBlank(t) == \A i \in 1 .. Len(t) : t[i] = " "

\* C20. Empty text is rejected: an add whose trimmed input is empty creates no
\* word and does not advance the palette counter, a save-edit whose trimmed
\* text is empty updates no word; in both cases the registry, the grid and the
\* Selection are unchanged.
C20_EmptyTextRejected ==
    [][ /\ (handleAddWord /\ IsBlank(currentWord))
           => UNCHANGED <<enteredWords, nextColorIndex, gridCells,
                          selectedWordData>>
        /\ \A i \in 1 .. Len(enteredWords) :
              (handleSaveEdit(enteredWords[i].id) /\ IsBlank(editedWordText))
              => UNCHANGED <<enteredWords, gridCells, selectedWordData>> ]_vars

\* A blank text was saved for a word that has cells on the grid.
C20_Witness ==
    /\ last.op = "save"
    /\ last.res = "empty"
    /\ CellsOf(gridCells, last.arg) # {}
    /\ HasWord(enteredWords, last.arg)
    /\ ~IsBlank(FindWord(enteredWords, last.arg).text)

\* In a state with a Selection, the select event on the selected word can
\* happen and ends with the Selection absent.
DeselectEnabled ==
    SelectionPresent
    => \E i \in 1 .. Len(enteredWords) :
          /\ enteredWords[i].id = selectedWordData.id
          /\ ENABLED ( /\ handleSelectWord(enteredWords[i].id,
                                           enteredWords[i].text,
                                           enteredWords[i].color)
                       /\ selectedWordData' = NoSelection )

C22_NonFinalPlacement ==
    [][ \A rc \in ScanCells :
           ( /\ PlacementOn(rc)
             /\ selectedWordData.letterIndex + 1 < Len(selectedWordData.text) )
           => /\ \A o \in ScanCells \ {rc} : gridCells'[o] = gridCells[o]
              /\ gridCells'[rc].wordId = selectedWordData.id
              /\ gridCells'[rc].sequenceIndex = selectedWordData.letterIndex
              /\ selectedWordData'.id = selectedWordData.id
              /\ selectedWordData'.text = selectedWordData.text
              /\ selectedWordData'.color = selectedWordData.color
              /\ selectedWordData'.letterIndex =
                    selectedWordData.letterIndex + 1
              /\ selectedWordData'.lastPlacedCoords = rc ]_vars

\* A letter that is neither the first nor the last of its word was placed
\* next to a cell of another word.
C22_Witness ==
    /\ last.op = "click"
    /\ last.res = "placed"
    /\ SelectionPresent
    /\ selectedWordData.letterIndex = 2
    /\ selectedWordData.letterIndex < Len(selectedWordData.text)
    /\ selectedWordData.lastPlacedCoords \in CellsOf(gridCells, selectedWordData.id)
    /\ gridCells[selectedWordData.lastPlacedCoords].sequenceIndex = 1
    /\ OwnersOn(gridCells) # {selectedWordData.id}

\* The Selection is on a word with a non-empty text and none of its letters
\* placed.
AtFirstLetter ==
    /\ SelectionPresent
    /\ selectedWordData.letterIndex = 0
    /\ Len(selectedWordData.text) > 0

\* C23. First-letter placement: when the Selection has nextIndex = 0 and a
\* non-empty text, a click on any empty cell of the grid is accepted,
\* whatever lastPlacedCoord is and wherever the cells of other words lie, and
\* writes sequenceIndex 0 into that cell.
C23_FirstLetterAnywhere ==
    /\ [](AtFirstLetter
          => /\ \A rc \in Coords : isValidPlacement(selectedWordData, rc)
             /\ \A rc \in ScanCells :
                   gridCells[rc] = NullCell
                   => ENABLED ( /\ handleCellClick(rc[1], rc[2])
                                /\ gridCells'[rc] # NullCell ))
    /\ [][ \A rc \in ScanCells :
              (AtFirstLetter /\ ClickOn(rc) /\ gridCells[rc] = NullCell)
              => /\ gridCells'[rc] # NullCell
                 /\ gridCells'[rc].sequenceIndex = 0
                 /\ gridCells'[rc].wordId = selectedWordData.id ]_vars

\* The first letter of a word was placed two columns away from the only
\* cell of another word.
C23_Witness ==
    /\ last.op = "click"
    /\ last.res = "placed"
    /\ SelectionPresent
    /\ selectedWordData.letterIndex = 1
    /\ selectedWordData.lastPlacedCoords = << 0, 2 >>
    /\ gridCells[<< 0, 2 >>] # NullCell
    /\ gridCells[<< 0, 2 >>].sequenceIndex = 0
    /\ gridCells[<< 0, 1 >>] = NullCell
    /\ gridCells[<< 0, 0 >>] # NullCell
    /\ gridCells[<< 0, 0 >>].wordId # selectedWordData.id

\* The sequence indices of a word on the grid, and the highest of them.
IndicesOf(grid, w) == { grid[o].sequenceIndex : o \in CellsOf(grid, w) }

MaxIndexOf(grid, w) ==
    CHOOSE k \in IndicesOf(grid, w) : \A j \in IndicesOf(grid, w) : j <= k

\* C24. Middle removal does not renumber: toggling off a cell of the selected
\* word whose sequenceIndex is not the maximum for that word leaves every
\* other cell of the grid unchanged and leaves the Selection's nextIndex and
\* lastPlacedCoord exactly as they were, although a gap in the sequence
\* indices now exists.
C24_MiddleRemoval ==
    [][ \A rc \in ScanCells :
           ( /\ ClickOn(rc)
             /\ SelectionPresent
             /\ gridCells[rc] # NullCell
             /\ gridCells[rc].wordId = selectedWordData.id
             /\ gridCells'[rc] = NullCell
             /\ gridCells[rc].sequenceIndex <
                   MaxIndexOf(gridCells, selectedWordData.id) )
           => /\ \A o \in ScanCells \ {rc} : gridCells'[o] = gridCells[o]
              /\ selectedWordData'.letterIndex = selectedWordData.letterIndex
              /\ selectedWordData'.lastPlacedCoords =
                    selectedWordData.lastPlacedCoords
              /\ selectedWordData' = selectedWordData
              /\ gridCells[rc].sequenceIndex
                    \notin IndicesOf(gridCells', selectedWordData.id)
              /\ \E k \in IndicesOf(gridCells', selectedWordData.id) :
                    k > gridCells[rc].sequenceIndex ]_vars

\* The first letter of a word with three letters placed was toggled off: the
\* second and third letters stay, the Selection is still at the fourth.
C24_Witness ==
    /\ last.op = "click"
    /\ last.res = "toggledoff"
    /\ SelectionPresent
    /\ selectedWordData.letterIndex = 3
    /\ IndicesOf(gridCells, selectedWordData.id) = {1, 2}
    /\ selectedWordData.lastPlacedCoords \in CellsOf(gridCells, selectedWordData.id)
    /\ gridCells[selectedWordData.lastPlacedCoords].sequenceIndex = 2

\* The text between the first and the last character that is not a space.
Core(t) ==
    IF IsBlank(t) THEN << >>
    ELSE LET solid == { i \in 1 .. Len(t) : t[i] # " " }
             first == CHOOSE i \in solid : \A j \in solid : i <= j
             final == CHOOSE i \in solid : \A j \in solid : j <= i
         IN  SubSeq(t, first, final)

\* C25. Rename clears placements: saving an edit whose trimmed text is
\* non-empty and differs from the word's current text empties every grid cell
\* owned by that word and keeps the word's id and color; saving an edit whose
\* trimmed text equals the current text leaves the grid unchanged.  In both
\* cases cells of other words are unchanged and edit mode ends.
C25_RenameClears ==
    [][ \A i \in 1 .. Len(enteredWords) :
           ( /\ handleSaveEdit(enteredWords[i].id)
             /\ ~IsBlank(editedWordText) )
           => /\ editMode' = NullId
              /\ Len(enteredWords') = Len(enteredWords)
              /\ enteredWords'[i].id = enteredWords[i].id
              /\ enteredWords'[i].color = enteredWords[i].color
              /\ \A o \in ScanCells :
                    ( gridCells[o] = NullCell
                      \/ gridCells[o].wordId # enteredWords[i].id )
                    => gridCells'[o] = gridCells[o]
              /\ IF Core(editedWordText) # enteredWords[i].text
                 THEN CellsOf(gridCells', enteredWords[i].id) = {}
                 ELSE gridCells' = gridCells ]_vars

\* A word with cells on the grid was renamed: its cells are gone, the cells
\* of the other word are still there.
C25_Witness ==
    /\ last.op = "save"
    /\ last.res = "renamedcleared"
    /\ editMode = NullId
    /\ CellsOf(gridCells, last.arg) = {}
    /\ Occupied(gridCells) # {}

\* C26. Frame of clearCellsForWord(w): every grid cell not owned by w is
\* unchanged, the word registry is unchanged, and a Selection that is absent
\* or on a word other than w is unchanged.
C26_ClearFrame ==
    [][ \A w \in IdsOf(enteredWords) :
           /\ ( /\ last'.arg = w
                /\ \/ last'.op = "clear"
                   \/ last'.op = "save"
                      /\ last'.res \in {"renamed", "renamedcleared"} )
              => /\ \A o \in ScanCells :
                       ( gridCells[o] = NullCell \/ gridCells[o].wordId # w )
                       => gridCells'[o] = gridCells[o]
                 /\ selectedWordData.id # w
                    => selectedWordData' = selectedWordData
                 /\ Len(enteredWords') = Len(enteredWords)
                 /\ \A i \in 1 .. Len(enteredWords) :
                       /\ enteredWords'[i].id = enteredWords[i].id
                       /\ enteredWords'[i].color = enteredWords[i].color
                       /\ enteredWords[i].id # w
                          => enteredWords'[i] = enteredWords[i]
           /\ (last'.op = "clear" /\ last'.arg = w)
              => enteredWords' = enteredWords ]_vars

\* The cells of one word were cleared while another word, with letters on the
\* grid, is selected.
C26_Witness ==
    /\ last.op = "clear"
    /\ last.res = "cleared"
    /\ SelectionPresent
    /\ selectedWordData.id # last.arg
    /\ selectedWordData.letterIndex >= 1
    /\ CellsOf(gridCells, selectedWordData.id) # {}
    /\ CellsOf(gridCells, last.arg) = {}

\* The step is a click on the empty cell rc that places the last letter of
\* the selected word.
FinalPlacementOn(rc) ==
    /\ PlacementOn(rc)
    /\ SelectionPresent
    /\ selectedWordData.letterIndex + 1 = Len(selectedWordData.text)

\* The last letter of the selected word can be placed on rc.
FinalPlacementReady(rc) ==
    /\ SelectionPresent
    /\ selectedWordData.letterIndex + 1 = Len(selectedWordData.text)
    /\ gridCells[rc] = NullCell
    /\ \/ selectedWordData.letterIndex = 0
       \/ Adjacent(selectedWordData.lastPlacedCoords, rc)

\* C27. Completion signal independence: when a placement completes a word the
\* resulting grid and Selection are the same whether the audio collaborator
\* is running or not; the completion signal is emitted only on an accepted
\* placement of the final letter and has no effect on grid, Selection or
\* registry.
C27_CompletionSignal ==
    /\ [](\A rc \in ClickCells :
             FinalPlacementReady(rc)
             => /\ ENABLED (ClickOn(rc) /\ last'.signal)
                /\ ENABLED (ClickOn(rc) /\ ~last'.signal))
    /\ [][ /\ last'.signal => \E rc \in ScanCells : FinalPlacementOn(rc)
           /\ \A rc \in ScanCells :
                 FinalPlacementOn(rc)
                 => /\ gridCells' =
                          [gridCells EXCEPT ![rc] =
                              [letter |-> UpperOf(selectedWordData.text[
                                              Len(selectedWordData.text)]),
                               wordId |-> selectedWordData.id,
                               color |-> selectedWordData.color,
                               sequenceIndex |-> selectedWordData.letterIndex,
                               row |-> rc[1],
                               col |-> rc[2]]]
                    /\ selectedWordData' = NoSelection
                    /\ enteredWords' = enteredWords ]_vars

\* A word was completed while the audio was not running: no signal, the last
\* letter is on the grid and the Selection is absent.
C27_Witness ==
    /\ last.op = "click"
    /\ last.res = "completed"
    /\ ~last.signal
    /\ ~SelectionPresent
    /\ \E i \in 1 .. Len(enteredWords) :
          /\ Len(enteredWords[i].text) - 1
                \in IndicesOf(gridCells, enteredWords[i].id)
          /\ Cardinality(CellsOf(gridCells, enteredWords[i].id)) =
                Len(enteredWords[i].text)

\* C28. Selection resumption invariant: in every reachable state with a
\* Selection, nextIndex is 1 + the highest sequenceIndex among the cells of
\* the selected word (0 if it owns none) and lastPlacedCoord is the cell that
\* holds that highest index (absent iff the word owns no cell); so nextIndex >
\* 0 implies lastPlacedCoord points at a cell of the word with sequenceIndex
\* nextIndex - 1.
C28_ResumptionInvariant ==
    SelectionPresent
    => LET w == selectedWordData.id
           at == selectedWordData.lastPlacedCoords
       IN  /\ IF IndicesOf(gridCells, w) = {}
              THEN /\ selectedWordData.letterIndex = 0
                   /\ at = NullCoords
              ELSE /\ selectedWordData.letterIndex =
                         MaxIndexOf(gridCells, w) + 1
                   /\ at \in CellsOf(gridCells, w)
                   /\ gridCells[at].sequenceIndex = MaxIndexOf(gridCells, w)
           /\ selectedWordData.letterIndex > 0
              => /\ at # NullCoords
                 /\ gridCells[at] # NullCell
                 /\ gridCells[at].wordId = w
                 /\ gridCells[at].sequenceIndex =
                       selectedWordData.letterIndex - 1

\* A word with its first and third letters on the grid and the second
\* missing was selected: the Selection is at the fourth letter.
C28_Witness ==
    /\ last.op = "select"
    /\ last.res = "selected"
    /\ SelectionPresent
    /\ IndicesOf(gridCells, selectedWordData.id) = {0, 2}
    /\ selectedWordData.letterIndex = 3
    /\ gridCells[selectedWordData.lastPlacedCoords].sequenceIndex = 2

\* C29. Gaps are never refilled under higher letters: a placement with
\* sequenceIndex k for word w is accepted only where no cell of w has a
\* sequenceIndex greater than or equal to k; a word reaches completion with
\* each missing lower index still missing.
C29_NoRefillUnderHigher ==
    [][ \A rc \in ScanCells :
           PlacementOn(rc)
           => LET w == gridCells'[rc].wordId
                  k == gridCells'[rc].sequenceIndex
              IN  /\ \A j \in IndicesOf(gridCells, w) : j < k
                  /\ IndicesOf(gridCells', w) =
                        IndicesOf(gridCells, w) \cup {k}
                  /\ FinalPlacementOn(rc)
                     => \A j \in 0 .. k - 1 :
                           j \notin IndicesOf(gridCells, w)
                           => j \notin IndicesOf(gridCells', w) ]_vars

\* A four-letter word was completed with its second letter missing.
C29_Witness ==
    /\ last.op = "click"
    /\ last.res = "completed"
    /\ \E i \in 1 .. Len(enteredWords) :
          /\ Len(enteredWords[i].text) = 4
          /\ IndicesOf(gridCells, enteredWords[i].id) = {0, 2, 3}

\* Word i of the registry has its last letter on the grid.
Locked(grid, words, i) ==
    Len(words[i].text) - 1 \in IndicesOf(grid, words[i].id)

\* C30. Last-letter lock: while a word owns a cell whose sequenceIndex is the
\* length of its text - 1, no cell click removes or changes any cell of that
\* word; such cells are removed only by clearCellsForWord, called by the
\* Clear button or by a save that changes the text.
C30_LastLetterLock ==
    [][ \A i \in 1 .. Len(enteredWords) :
           Locked(gridCells, enteredWords, i)
           => LET w == enteredWords[i].id
              IN  /\ \A rc \in ScanCells :
                        ClickOn(rc)
                        => \A o \in CellsOf(gridCells, w) :
                              gridCells'[o] = gridCells[o]
                  /\ (\E o \in CellsOf(gridCells, w) :
                         gridCells'[o] # gridCells[o])
                     => /\ last'.arg = w
                        /\ \/ last'.op = "clear"
                           \/ last'.op = "save"
                              /\ last'.res = "renamedcleared" ]_vars

\* A word with its last letter on the grid and a lower letter missing was
\* selected and clicked: the click only ended the Selection.
C30_Witness ==
    /\ last.op = "click"
    /\ last.res = "exhausted"
    /\ ~SelectionPresent
    /\ \E i \in 1 .. Len(enteredWords) :
          /\ Locked(gridCells, enteredWords, i)
          /\ Cardinality(CellsOf(gridCells, enteredWords[i].id)) <
                Len(enteredWords[i].text)

\* The Selection is on a word of the registry and carries its text and
\* color.
SnapshotFresh ==
    SelectionPresent
    => /\ \E i \in 1 .. Len(enteredWords) :
             /\ enteredWords[i].id = selectedWordData.id
             /\ enteredWords[i].text = selectedWordData.text
             /\ enteredWords[i].color = selectedWordData.color
       /\ \A i \in 1 .. Len(enteredWords) :
             ~ENABLED handleSaveEdit(enteredWords[i].id)

\* The step changes the text of a word of the registry.
RenameStep ==
    /\ Len(enteredWords') = Len(enteredWords)
    /\ \E i \in 1 .. Len(enteredWords) :
          enteredWords'[i].text # enteredWords[i].text

\* C31. Selection snapshot never goes stale: in every reachable state with a
\* Selection, its wordId is the id of a word in the registry and its text and
\* color are that word's current text and color; no rename takes effect while
\* a Selection is present, since save-edit needs edit mode and entering edit
\* mode clears the Selection.
C31_SnapshotNeverStale ==
    /\ []SnapshotFresh
    /\ [][ /\ RenameStep
              => /\ ~SelectionPresent
                 /\ editMode # NullId
                 /\ last'.op = "save"
                 /\ selectedWordData' = NoSelection
           /\ last'.op = "edit" => selectedWordData' = NoSelection ]_vars

\* A word was selected while an edit with another text was open: the edit is
\* dropped and the Selection carries the text of the registry.
C31_Witness ==
    /\ last.op = "select"
    /\ last.res = "selected"
    /\ SelectionPresent
    /\ editMode = NullId
    /\ ~IsBlank(editedWordText)
    /\ Core(editedWordText) # selectedWordData.text
    /\ FindWord(enteredWords, selectedWordData.id).text = selectedWordData.text

\* C32. Grid agrees with current texts: in every reachable state every
\* occupied cell has a sequenceIndex below the length of the owning word's
\* registry text and its letter is the upper-case form of the character of
\* that text at sequenceIndex; so a word never owns more cells than its text
\* has characters.
C32_GridAgreesWithTexts ==
    /\ \A rc \in Occupied(gridCells) :
          \E i \in 1 .. Len(enteredWords) :
             /\ enteredWords[i].id = gridCells[rc].wordId
             /\ gridCells[rc].sequenceIndex \in 0 .. Len(enteredWords[i].text) - 1
             /\ gridCells[rc].letter =
                   UpperOf(enteredWords[i].text[gridCells[rc].sequenceIndex + 1])
    /\ \A i \in 1 .. Len(enteredWords) :
          Cardinality(CellsOf(gridCells, enteredWords[i].id))
             <= Len(enteredWords[i].text)

\* A word with cells on the grid was renamed while the other word has all its
\* letters on the grid.
C32_Witness ==
    /\ last.op = "save"
    /\ last.res = "renamedcleared"
    /\ \E i \in 1 .. Len(enteredWords) :
          /\ enteredWords[i].id # last.arg
          /\ Cardinality(CellsOf(gridCells, enteredWords[i].id)) =
                Len(enteredWords[i].text)

\* C33. No dangling owners: in every reachable state the wordId of every
\* occupied cell is the id of a word of the registry, so the wordIndex of
\* every export record is a 0-based registry position and the sentinel -1 is
\* never emitted.
C33_NoDanglingOwners ==
    /\ \A rc \in Occupied(gridCells) :
          \E i \in 1 .. Len(enteredWords) :
             enteredWords[i].id = gridCells[rc].wordId
    /\ LET line == gridDataLine(enteredWords, gridCells)
           recs == ExportRecords(line)
       IN  /\ \A n \in 1 .. Len(line) : line[n] # "-"
           /\ \A k \in 1 .. Len(recs) :
                 recs[k][1] \in 0 .. Len(enteredWords) - 1
    /\ last.op = "export"
       => /\ last.res = gridDataLine(enteredWords, gridCells)
          /\ \A n \in 1 .. Len(last.res) : last.res[n] # "-"

\* An export with cells of both words of the registry on the grid.
C33_Witness ==
    /\ last.op = "export"
    /\ Cardinality(OwnersOn(gridCells)) = 2
    /\ \E k \in 1 .. Len(ExportRecords(last.res)) :
          ExportRecords(last.res)[k][1] = 1
    /\ \E k \in 1 .. Len(ExportRecords(last.res)) :
          ExportRecords(last.res)[k][1] = 0

====
